---------------------------- MODULE Spec2Model ----------------------------
(***************************************************************************)
(* Model of the forking execution engine of src/__impl/fork.py (Process,   *)
(* Sys, OperatingSystem) together with the demonstration program of        *)
(* src/main.py and src/process.py.                                         *)
(*                                                                         *)
(* Conventions.  Program lines and list positions are 0-based as in the    *)
(* Python source; TLA+ sequences are 1-based, so element i of a Python     *)
(* list x is x[i + 1].  An Optional value is a sequence of length at most  *)
(* one: << >> is None and <<h>> is the value h.                            *)
(***************************************************************************)
EXTENDS Integers, Sequences, FiniteSets, TLC

VARIABLES
    process_list,   \* Sys.__process_list: sequence of Process records
    code,           \* Sys.__code: the program, a sequence of instruction names
    env,            \* OperatingSystem.__env: the clock of MainEnvironment
    pc,             \* control position of the driver
    it_index,       \* index of the list iterator of the for loop of Sys.execute
    line,           \* next line the generator of Process.execute will yield
    fault,          \* exception that ended the last call, "none" if none
    rounds,         \* number of calls of OperatingSystem.execute so far
    invoked,        \* <<position, line>> of every instruction call of the current round
    forked,         \* position, resume_ptr and parent of every Process cloned in the current round
    started,        \* positions on which Sys.execute called Process.execute in the current round, in order
    round_start,    \* the population when the current round started (programs of deterministic instructions)
    last            \* record of the last step taken

vars == <<process_list, code, env, pc, it_index, line, fault,
          rounds, invoked, forked, started, round_start, last>>

---------------------------------------------------------------------------
(* Bounds of the model *)

MaxRounds == 2
MaxPop == 4
MaxProg == 2
MaxHints == 3
MaxStride == 3
MaxFinalCount == 5
MaxPrunePop == 5
MaxScore == 2

MinStride == 0 - 1
MinFinalCount == 0 - 1

None == << >>
Some(h) == <<h>>

\* the hints a generic instruction returns (ModelHint = int)
HintValues == {1, 2}
\* the parameters tried on Sys.prune, degenerate ones included
Strides == MinStride..MaxStride
FinalCounts == MinFinalCount..MaxFinalCount
\* the parameters of the prune call between two rounds
RoundStrides == {2}
RoundFinalCounts == {2}

RECURSIVE SeqsUpTo(_, _)
SeqsUpTo(S, n) ==
    IF n = 0 THEN {<< >>}
    ELSE LET shorter == SeqsUpTo(S, n - 1)
         IN  shorter \cup {Append(s, e) : s \in {t \in shorter : Len(t) = n - 1}, e \in S}

HintLists == SeqsUpTo(HintValues, MaxHints)

---------------------------------------------------------------------------
(* Python arithmetic and list slicing, as used by Sys.prune *)

\* a // b of Python: floor division, ZeroDivisionError is handled by the caller
FloorDiv(a, b) ==
    IF b > 0 THEN a \div b ELSE (0 - a) \div (0 - b)

\* clamping of a given slice bound (PySlice_AdjustIndices)
AdjustIndex(i, len, step) ==
    IF i < 0
    THEN IF i + len < 0 THEN (IF step < 0 THEN 0 - 1 ELSE 0) ELSE i + len
    ELSE IF i >= len THEN (IF step < 0 THEN len - 1 ELSE len) ELSE i

\* x[start:stop:step] for step # 0; start and stop are Optional
PySlice(x, start, stop, step) ==
    LET len == Len(x)
        lo  == IF start = None THEN (IF step < 0 THEN len - 1 ELSE 0)
               ELSE AdjustIndex(start[1], len, step)
        hi  == IF stop = None THEN (IF step < 0 THEN 0 - 1 ELSE len)
               ELSE AdjustIndex(stop[1], len, step)
        cnt == IF step < 0
               THEN IF hi < lo THEN (lo - hi - 1) \div (0 - step) + 1 ELSE 0
               ELSE IF lo < hi THEN (hi - lo - 1) \div step + 1 ELSE 0
    IN  [k \in 1..cnt |-> x[lo + (k - 1) * step + 1]]

\* Process.score: the score of MainModel is its value
score(p) == p.model

\* variant of InsertDesc: p goes in front of the elements of equal score
RECURSIVE InsertDesc_unstable(_, _)
InsertDesc_unstable(s, p) ==
    IF s = << >> THEN <<p>>
    ELSE IF score(Head(s)) > score(p)
         THEN <<Head(s)>> \o InsertDesc_unstable(Tail(s), p)
         ELSE <<p>> \o s

\* insertion of p behind every element whose score is >= its own
RECURSIVE InsertDesc(_, _)
InsertDesc(s, p) ==
    IF s = << >> THEN <<p>>
    ELSE IF score(Head(s)) >= score(p)
         THEN <<Head(s)>> \o InsertDesc(Tail(s), p)
         ELSE <<p>> \o s

\* list.sort(key=score, reverse=True): stable, descending
RECURSIVE SortDesc(_)
SortDesc(x) ==
    IF x = << >> THEN << >>
    ELSE InsertDesc(SortDesc(SubSeq(x, 1, Len(x) - 1)), x[Len(x)])

\* variant of FirstBranch: the comparison is turned around
FirstBranch_ge(len, stride, final_count) == len >= final_count * stride

\* the first branch is taken when len(x) <= final_count * stride
FirstBranch(len, stride, final_count) == len <= final_count * stride

\* n of the first branch: final_count - (len(x) - final_count) // (stride - 1)
KeepHead(len, stride, final_count) ==
    final_count - FloorDiv(len - final_count, stride - 1)

\* new_stride of the second branch: len(x) // final_count + 1
NewStride(len, final_count) == FloorDiv(len, final_count) + 1

\* variant of EarlyReturn: strict comparison
EarlyReturn_lt(len, final_count) == len < final_count

\* the early return of Sys.prune: len(self.__process_list) <= final_count
EarlyReturn(len, final_count) == len <= final_count

\* variant of Kept: the strided part starts one position late
Kept_skip(x, n, stride) ==
    PySlice(x, None, Some(n), 1) \o PySlice(x, Some(n + 1), None, stride)

\* variant of Kept: the head slice runs one element into the strided tail
Kept_overlap(x, n, stride) ==
    PySlice(x, None, Some(n + 1), 1) \o PySlice(x, Some(n), None, stride)

\* y of the first branch: x[:n] + x[n::stride]
Kept(x, n, stride) ==
    PySlice(x, None, Some(n), 1) \o PySlice(x, Some(n), None, stride)

\* Sys.prune: the list it leaves, the exception it raises, the branch it
\* takes (0: early return) and the slice step it uses (None: no slice taken)
PruneOutcome(x, stride, final_count) ==
    IF EarlyReturn(Len(x), final_count)
    THEN [list |-> x, fault |-> "none", branch |-> 0, step |-> None]
    ELSE LET s == SortDesc(x) IN
         IF FirstBranch(Len(s), stride, final_count)
         THEN IF stride - 1 = 0
              THEN [list |-> s, fault |-> "ZeroDivisionError", branch |-> 1, step |-> None]
              ELSE LET n == KeepHead(Len(s), stride, final_count) IN
                   IF stride = 0
                   THEN [list |-> s, fault |-> "ValueError", branch |-> 1, step |-> Some(stride)]
                   ELSE [list |-> Kept(s, n, stride),
                         fault |-> "none", branch |-> 1, step |-> Some(stride)]
         ELSE IF final_count = 0
              THEN [list |-> s, fault |-> "ZeroDivisionError", branch |-> 2, step |-> None]
              ELSE LET new_stride == NewStride(Len(s), final_count) IN
                   IF new_stride = 0
                   THEN [list |-> s, fault |-> "ValueError", branch |-> 2, step |-> Some(new_stride)]
                   ELSE [list |-> PySlice(s, None, None, new_stride),
                         fault |-> "none", branch |-> 2, step |-> Some(new_stride)]

---------------------------------------------------------------------------
(* The instructions: the demonstration program and the generic CodeLine *)

\* src/main.py, MainModel.step_one_incr
step_one_incr(model, hint) ==
    [model |-> IF hint # None THEN model + hint[1] ELSE model, hints |-> << >>]

\* src/main.py, MainModel.step_two_test
step_two_test(model, hint) ==
    [model |-> model, hints |-> IF model % 2 = 0 THEN <<1, 2>> ELSE <<3>>]

\* src/main.py, MainModel.step_thr_incr
step_thr_incr(model, hint) ==
    [model |-> IF hint # None THEN model + hint[1] ELSE model, hints |-> <<1, 2>>]

\* src/main.py, MainModel.step_fou_prin: passes the hint through
step_fou_prin(model, hint) ==
    [model |-> model, hints |-> IF hint # None THEN <<hint[1]>> ELSE << >>]

\* src/process.py, MainModel.step_fou_prin: always returns the empty list
step_fou_prin_process(model, hint) ==
    [model |-> model, hints |-> << >>]

\* instruction I0 of the scenario of the specification: the hint plus one
\* when a hint is present, nothing otherwise; the model is left alone
scenario_I0(model, hint) ==
    [model |-> model, hints |-> IF hint # None THEN <<hint[1] + 1>> ELSE << >>]

\* a callable of type CodeLine that only reads its arguments: it may return
\* any list of hints
CodeLine(model, hint) ==
    {[model |-> model, hints |-> h] : h \in HintLists}

\* the outcomes of calling an instruction of the program
Call(instr, model, hint, e) ==
    CASE instr = "step_one_incr" -> {step_one_incr(model, hint)}
      [] instr = "step_two_test" -> {step_two_test(model, hint)}
      [] instr = "step_thr_incr" -> {step_thr_incr(model, hint)}
      [] instr = "step_fou_prin" -> {step_fou_prin(model, hint)}
      [] instr = "step_fou_prin_process" -> {step_fou_prin_process(model, hint)}
      [] instr = "scenario_I0" -> {scenario_I0(model, hint)}
      [] instr = "CodeLine" -> CodeLine(model, hint)

\* the program of main() in src/main.py
MainProgram ==
    <<"step_one_incr", "step_two_test", "step_thr_incr", "step_fou_prin">>

\* the program of main() in src/process.py
ProcessProgram ==
    <<"step_one_incr", "step_two_test", "step_thr_incr", "step_fou_prin_process">>

\* the program of the scenario of the specification: I0, then the test of
\* MainModel.step_two_test as I1
ScenarioProgram == <<"scenario_I0", "step_two_test">>

\* the programs all of whose instructions are deterministic
DeterministicPrograms == {MainProgram, ProcessProgram, ScenarioProgram}

Programs ==
    DeterministicPrograms \cup SeqsUpTo({"CodeLine"}, MaxProg)

---------------------------------------------------------------------------
(* Process *)

\* Process.__init__
Process(model, hint) ==
    [model |-> model, hint |-> hint, resume_ptr |-> 0]

\* variant of clone: the hint of the copy is not overwritten
clone_keep_hint(self, resume_ptr, hint) ==
    [model |-> self.model, hint |-> self.hint, resume_ptr |-> resume_ptr]

\* Process.clone: deep copy, then resume_ptr and hint are overwritten
clone(self, resume_ptr, hint) ==
    [model |-> self.model, hint |-> Some(hint), resume_ptr |-> resume_ptr]

\* variant of PopHint: pop(0), the first hint is kept instead of the last
PopHint_first(hint_list) ==
    IF hint_list = << >> THEN None ELSE Some(hint_list[1])

\* hint_list.pop() with its IndexError handler: the new pending hint
PopHint(hint_list) ==
    IF hint_list = << >> THEN None ELSE Some(hint_list[Len(hint_list)])

\* variant of PopRest: the last hint is read but not removed from the list
PopRest_all(hint_list) == hint_list

\* what is left of hint_list after pop()
PopRest(hint_list) ==
    IF hint_list = << >> THEN << >> ELSE SubSeq(hint_list, 1, Len(hint_list) - 1)

\* variant of AfterCall: the IndexError handler leaves the old hint in place
AfterCall_keep(self, out) ==
    [self EXCEPT !.model = out.model,
                 !.hint = IF out.hints = << >> THEN self.hint ELSE PopHint(out.hints)]

\* the process after the instruction call and the assignment of its hint
AfterCall(self, out) ==
    [self EXCEPT !.model = out.model, !.hint = PopHint(out.hints)]

\* variant of Clones: a clone resumes at the line that created it
Clones_sameline(self, hint_list, ln) ==
    [j \in 1..Len(hint_list) |-> clone(self, ln, hint_list[j])]

\* the clones registered by the inner for loop of Process.execute
Clones(self, hint_list, ln) ==
    [j \in 1..Len(hint_list) |-> clone(self, ln + 1, hint_list[j])]

\* variant of ResetPtr: the reset is done inside the loop, so it is skipped
\* when the loop body never runs
ResetPtr_inloop(self) ==
    IF self.resume_ptr < Len(code) THEN [self EXCEPT !.resume_ptr = 0] ELSE self

\* variant of ResetPtr: the reset also clears the pending hint
ResetPtr_clearhint(self) == [self EXCEPT !.resume_ptr = 0, !.hint = None]

\* the last statement of Process.execute
ResetPtr(self) == [self EXCEPT !.resume_ptr = 0]

\* MainEnvironment.update
update(clock) == clock + 1

\* variant of instructions_from: the whole program is enumerated
instructions_from_start(index) == 0

\* Sys.instructions_from: the first line the generator yields
instructions_from(index) == index

\* Sys.add_model, called for each clone in turn: append at the end
add_models(list, processes) == list \o processes

\* variant of NextIndex: the iterator skips a position
NextIndex_skip(i) == i + 2

\* the list iterator of Sys.execute moves to the next position
NextIndex(i) == i + 1

\* variant of IterLimit: the loop runs over a copy of the list taken when
\* Sys.execute starts
IterLimit_snapshot == Len(process_list) - Cardinality(forked)

\* the bound of the list iterator of Sys.execute: the current length
IterLimit == Len(process_list)

NoLast ==
    [op |-> "init", pos |-> 0, line |-> 0, hints |-> << >>, size |-> 0, pre |-> << >>,
     stride |-> 0, final_count |-> 0, branch |-> 0, step |-> None]

---------------------------------------------------------------------------
(* The driver *)

\* OperatingSystem.execute is called: Sys.execute starts its for loop
OSExecute ==
    /\ pc = "idle"
    /\ rounds < MaxRounds
    /\ pc' = "sys"
    /\ it_index' = 0
    /\ rounds' = rounds + 1
    /\ invoked' = {}
    /\ forked' = {}
    /\ last' = [NoLast EXCEPT !.op = "execute", !.size = Len(process_list)]
    /\ started' = << >>
    /\ round_start' = IF code \in DeterministicPrograms THEN process_list ELSE << >>
    /\ UNCHANGED <<process_list, code, env, line, fault>>

\* the for loop of Sys.execute fetches the next process and calls its execute
SysNext ==
    /\ pc = "sys"
    /\ it_index < IterLimit
    /\ pc' = "proc"
    /\ line' = instructions_from(process_list[it_index + 1].resume_ptr)
    /\ last' = [NoLast EXCEPT !.op = "next", !.pos = it_index, !.size = Len(process_list)]
    /\ started' = Append(started, it_index)
    /\ UNCHANGED <<process_list, code, env, it_index, fault, rounds,
                   invoked, forked, round_start>>

\* variant of ProcStep: clone copies the process shallowly, so the clones
\* registered by a process in this round share its model object and see the
\* writes of its later instructions
ProcStep_shallow ==
    /\ pc = "proc"
    /\ line < Len(code)
    /\ LET self == process_list[it_index + 1] IN
       \E out \in Call(code[line + 1], self.model, self.hint, env) :
          LET after  == AfterCall(self, out)
              clones == Clones(after, PopRest(out.hints), line)
              shared == {f.pos + 1 : f \in {g \in forked : g.parent = it_index}}
              heap   == [i \in 1..Len(process_list) |->
                            IF i = it_index + 1 THEN after
                            ELSE IF i \in shared
                                 THEN [process_list[i] EXCEPT !.model = out.model]
                                 ELSE process_list[i]]
          IN  /\ Len(process_list) + Len(clones) <= MaxPop
              /\ process_list' = add_models(heap, clones)
              /\ invoked' = invoked \cup {<<it_index, line>>}
              /\ forked' = forked \cup {[pos |-> Len(process_list) + j - 1,
                                          resume_ptr |-> clones[j].resume_ptr,
                                          parent |-> it_index] : j \in 1..Len(clones)}
              /\ last' = [NoLast EXCEPT !.op = "instr", !.pos = it_index, !.line = line,
                                        !.hints = out.hints,
                                        !.size = Len(process_list)]
    /\ line' = line + 1
    /\ UNCHANGED <<code, env, pc, it_index, fault, rounds, started, round_start>>

\* one iteration of the for loop of Process.execute
ProcStep ==
    /\ pc = "proc"
    /\ line < Len(code)
    /\ LET self == process_list[it_index + 1] IN
       \E out \in Call(code[line + 1], self.model, self.hint, env) :
          LET after  == AfterCall(self, out)
              clones == Clones(after, PopRest(out.hints), line)
          IN  /\ Len(process_list) + Len(clones) <= MaxPop
              /\ process_list' = add_models([process_list EXCEPT ![it_index + 1] = after], clones)
              /\ invoked' = invoked \cup {<<it_index, line>>}
              /\ forked' = forked \cup {[pos |-> Len(process_list) + j - 1,
                                          resume_ptr |-> clones[j].resume_ptr,
                                          parent |-> it_index] : j \in 1..Len(clones)}
              /\ last' = [NoLast EXCEPT !.op = "instr", !.pos = it_index, !.line = line,
                                        !.hints = out.hints,
                                        !.size = Len(process_list)]
    /\ line' = line + 1
    /\ UNCHANGED <<code, env, pc, it_index, fault, rounds, started, round_start>>

\* variant of ProcReturn: env.update() is called inside the loop of Sys.execute
ProcReturn_update ==
    /\ pc = "proc"
    /\ line >= Len(code)
    /\ process_list' = [process_list EXCEPT ![it_index + 1] = ResetPtr(@)]
    /\ it_index' = NextIndex(it_index)
    /\ pc' = "sys"
    /\ env' = update(env)
    /\ last' = [NoLast EXCEPT !.op = "return", !.pos = it_index, !.size = Len(process_list)]
    /\ UNCHANGED <<code, line, fault, rounds, invoked, forked, started, round_start>>

\* variant of ProcReturn: Process.execute may return before the generator is
\* exhausted, and Sys.execute goes on with the next process
ProcReturn_early ==
    /\ pc = "proc"
    /\ process_list' = [process_list EXCEPT ![it_index + 1] = ResetPtr(@)]
    /\ it_index' = NextIndex(it_index)
    /\ pc' = "sys"
    /\ last' = [NoLast EXCEPT !.op = "return", !.pos = it_index, !.size = Len(process_list)]
    /\ UNCHANGED <<code, env, line, fault, rounds, invoked, forked, started, round_start>>

\* the generator is exhausted: Process.execute resets resume_ptr and returns
ProcReturn ==
    /\ pc = "proc"
    /\ line >= Len(code)
    /\ process_list' = [process_list EXCEPT ![it_index + 1] = ResetPtr(@)]
    /\ it_index' = NextIndex(it_index)
    /\ pc' = "sys"
    /\ last' = [NoLast EXCEPT !.op = "return", !.pos = it_index, !.size = Len(process_list)]
    /\ UNCHANGED <<code, env, line, fault, rounds, invoked, forked, started, round_start>>

\* the list iterator is exhausted: Sys.execute returns to OperatingSystem.execute
SysReturn ==
    /\ pc = "sys"
    /\ it_index >= IterLimit
    /\ pc' = "update"
    /\ last' = [NoLast EXCEPT !.op = "sys_return", !.size = Len(process_list)]
    /\ UNCHANGED <<process_list, code, env, it_index, line, fault, rounds,
                   invoked, forked, started, round_start>>

\* OperatingSystem.execute calls env.update() and returns
EnvUpdate ==
    /\ pc = "update"
    /\ env' = update(env)
    /\ pc' = "idle"
    /\ last' = [NoLast EXCEPT !.op = "update", !.size = Len(process_list)]
    /\ UNCHANGED <<process_list, code, it_index, line, fault, rounds,
                   invoked, forked, started, round_start>>

\* OperatingSystem.prune(stride, final_count), the whole call
OSPrune(stride, final_count) ==
    /\ pc = "idle"
    /\ LET r == PruneOutcome(process_list, stride, final_count) IN
       /\ process_list' = r.list
       /\ fault' = r.fault
       /\ pc' = IF r.fault = "none" THEN "idle" ELSE "fault"
       /\ last' = [NoLast EXCEPT !.op = "prune", !.pre = process_list, !.size = Len(process_list), !.stride = stride,
                                 !.final_count = final_count, !.branch = r.branch,
                                 !.step = r.step]
    /\ UNCHANGED <<code, env, it_index, line, rounds, invoked, forked, started, round_start>>

\* the prune call of the driving loop of main(), with small parameters
Prune == \E stride \in RoundStrides, final_count \in RoundFinalCounts :
            OSPrune(stride, final_count)

\* Sys.__init__ and OperatingSystem.__init__
Init ==
    /\ code \in Programs
    /\ process_list = <<Process(0, None)>>
    /\ env = 0
    /\ pc = "idle"
    /\ it_index = 0
    /\ line = 0
    /\ fault = "none"
    /\ rounds = 0
    /\ invoked = {}
    /\ forked = {}
    /\ started = << >>
    /\ round_start = << >>
    /\ last = NoLast

Next ==
    \/ OSExecute
    \/ SysNext
    \/ ProcStep
    \/ ProcReturn
    \/ SysReturn
    \/ EnvUpdate
    \/ Prune

Spec == Init /\ [][Next]_vars

---------------------------------------------------------------------------
(* Sys.prune as a function of the population: every population of bounded  *)
(* size and score, and the population of twelve distinct scores.  The      *)
(* processes of a population hold pairwise distinct pending hints (their   *)
(* position before the first prune), which tells apart processes of equal  *)
(* score.                                                                  *)

Scenario12 == [i \in 1..12 |-> Process(i, Some(i))]

PrunePopulations ==
    {[i \in 1..Len(s) |-> Process(s[i], Some(i))] : s \in SeqsUpTo(0..MaxScore, MaxPrunePop)}
        \cup {Scenario12}

InitPrune ==
    /\ code = MainProgram
    /\ process_list \in PrunePopulations
    /\ env = 0
    /\ pc = "idle"
    /\ it_index = 0
    /\ line = 0
    /\ fault = "none"
    /\ rounds = 0
    /\ invoked = {}
    /\ forked = {}
    /\ started = << >>
    /\ round_start = << >>
    /\ last = NoLast

\* one call of prune on each population drawn
NextPrune == last.op = "init" /\ \E stride \in Strides, final_count \in FinalCounts : OSPrune(stride, final_count)

SpecPrune == InitPrune /\ [][NextPrune]_vars

TypeOK ==
    /\ pc \in {"idle", "sys", "proc", "update", "fault"}
    /\ fault \in {"none", "ZeroDivisionError", "ValueError"}
    /\ \A i \in 1..Len(process_list) : process_list[i].resume_ptr \in 0..Len(code)

---------------------------------------------------------------------------
(* Properties of one round *)

\* C1: right after an instruction at line i returned k >= 1 hints on a
\* population of size p, the process is still the one being run and holds the
\* last hint, the population has size p + k - 1, and the k - 1 processes
\* appended are, in the order of the first k - 1 hints, processes with
\* resume_ptr = i + 1, that hint, and the model the parent has after the call.
ForkStep ==
    (last.op = "instr" /\ Len(last.hints) >= 1) =>
        LET k      == Len(last.hints)
            parent == process_list[last.pos + 1]
        IN  /\ pc = "proc" /\ it_index = last.pos /\ line = last.line + 1
            /\ parent.hint = Some(last.hints[k])
            /\ Len(process_list) = last.size + k - 1
            /\ \A j \in 1..(k - 1) :
                  process_list[last.size + j] =
                      [model |-> parent.model, hint |-> Some(last.hints[j]),
                       resume_ptr |-> last.line + 1]

\* an instruction at a line after the first returned three hints, no two
\* neighbours equal, to a process that is not the last of the population
ForkStepWitness ==
    /\ last.op = "instr"
    /\ last.line >= 1
    /\ Len(last.hints) = 3
    /\ last.hints[1] # last.hints[2]
    /\ last.hints[2] # last.hints[3]
    /\ last.pos + 1 < last.size

\* where a process of the current round started: its resume_ptr when it was
\* cloned, line 0 when it was in the population at the start of the round
StartLine(pos) ==
    IF \E f \in forked : f.pos = pos
    THEN (CHOOSE f \in forked : f.pos = pos).resume_ptr
    ELSE 0

\* C2: when Sys.execute has returned, every process cloned during the call,
\* at any depth, has had every instruction from its resume_ptr to the end of
\* the program invoked on it.
Cascade ==
    pc = "update" =>
        \A f \in forked : \A l \in f.resume_ptr..(Len(code) - 1) : <<f.pos, l>> \in invoked

\* Sys.execute has returned after a clone of a clone ran an instruction
CascadeWitness ==
    /\ pc = "update"
    /\ \E f, g \in forked :
          /\ g.parent = f.pos
          /\ g.resume_ptr < Len(code)
          /\ <<g.pos, g.resume_ptr>> \in invoked

\* C3: when Sys.execute has returned, every process has resume_ptr = 0.
RoundReset ==
    pc = "update" => \A i \in 1..Len(process_list) : process_list[i].resume_ptr = 0

\* Sys.execute has returned and the last instruction of the program cloned a process
RoundResetWitness ==
    /\ pc = "update"
    /\ Len(code) > 0
    /\ \E f \in forked : f.resume_ptr = Len(code)

\* C4: update has been called once for every finished call of
\* OperatingSystem.execute and not yet for the call in progress, and when it
\* is called every process of the round has run every instruction from its
\* start line on.
UpdateOnce ==
    /\ env = IF pc \in {"sys", "proc", "update"} THEN rounds - 1 ELSE rounds
    /\ last.op = "update" =>
          \A pos \in 0..(Len(process_list) - 1) :
             \A l \in StartLine(pos)..(Len(code) - 1) : <<pos, l>> \in invoked

\* the second round, with clones, has been closed by update
UpdateOnceWitness ==
    /\ last.op = "update"
    /\ rounds = 2
    /\ env = 2
    /\ forked # {}

---------------------------------------------------------------------------
(* Properties of prune *)

PruneCall(stride_ok, count_ok) ==
    last.op = "prune" /\ stride_ok /\ count_ok

MaxOf(S) == CHOOSE m \in S : \A n \in S : n <= m

Scores(x) == {score(x[i]) : i \in 1..Len(x)}

Range(x) == {x[i] : i \in 1..Len(x)}

\* C5: after prune(stride, final_count) with stride >= 2 and final_count >= 1
\* the population size is at most final_count.
PruneBound ==
    PruneCall(last.stride >= 2, last.final_count >= 1) =>
        Len(process_list) <= last.final_count

\* C6: prune(stride, final_count) with stride >= 2 and final_count >= 1 never
\* makes the population larger, and leaves a population of size <= final_count
\* as it is.
PruneMonotone ==
    PruneCall(last.stride >= 2, last.final_count >= 1) =>
        /\ fault = "none"
        /\ Len(process_list) <= Len(last.pre)
        /\ (Len(last.pre) <= last.final_count => process_list = last.pre)

\* prune was called on a population of exactly final_count processes that is not sorted
PruneMonotoneWitness ==
    /\ PruneCall(last.stride >= 2, last.final_count >= 1)
    /\ Len(last.pre) = last.final_count
    /\ \E i, j \in 1..Len(last.pre) : i < j /\ score(last.pre[i]) < score(last.pre[j])

\* C7: a process of maximum score before prune(stride, final_count), stride >= 2,
\* final_count >= 1, is in the population after it.
MaxRetained ==
    (PruneCall(last.stride >= 2, last.final_count >= 1) /\ last.pre # << >>) =>
        /\ fault = "none"
        /\ \E p \in Range(process_list) :
              p \in Range(last.pre) /\ score(p) = MaxOf(Scores(last.pre))

\* the first branch ran with n = 0 on a population whose first process is not a maximum
MaxRetainedWitness ==
    /\ PruneCall(last.stride >= 2, last.final_count >= 1)
    /\ last.branch = 1
    /\ last.final_count - (Len(last.pre) - last.final_count) \div (last.stride - 1) = 0
    /\ score(last.pre[1]) < MaxOf(Scores(last.pre))

\* number of processes that come before x[i] in the descending stable order
Rank(x, i) ==
    Cardinality({j \in 1..Len(x) :
                    \/ score(x[j]) > score(x[i])
                    \/ score(x[j]) = score(x[i]) /\ j < i})

\* the process at 0-based position q of the descending stable order of x
SortedAt(x, q) == x[CHOOSE i \in 1..Len(x) : Rank(x, i) = q]

\* the 0-based sorted positions kept by the first branch
HeadThenStride(n, keepHead, stride) ==
    [t \in 1..(keepHead + (n - keepHead + stride - 1) \div stride) |->
        IF t <= keepHead THEN t - 1 ELSE keepHead + (t - 1 - keepHead) * stride]

\* the 0-based sorted positions 0, step, 2 * step, ... below n
EveryNth(n, step) ==
    [t \in 1..((n + step - 1) \div step) |-> (t - 1) * step]

\* the population that keeps the given sorted positions of x
Selection(x, positions) ==
    [t \in 1..Len(positions) |-> SortedAt(x, positions[t])]

\* C8: when the population size n exceeds final_count (stride >= 2,
\* final_count >= 1) prune leaves the sorted positions 0..keepHead-1,
\* keepHead, keepHead+stride, ... when n <= final_count * stride, and the
\* sorted positions 0, newStride, 2*newStride, ... otherwise; the sort is
\* descending and stable.  For scores 1..12, final_count = 5 and stride = 3
\* keepHead is 2 and the scores kept are 12, 11, then 10, 7, 4, 1.
PruneExact ==
    (PruneCall(last.stride >= 2, last.final_count >= 1)
        /\ Len(last.pre) > last.final_count) =>
        LET n        == Len(last.pre)
            stride   == last.stride
            keepHead == last.final_count - (n - last.final_count) \div (stride - 1)
            newStride == n \div last.final_count + 1
        IN  /\ fault = "none"
            /\ process_list =
                  IF n <= last.final_count * stride
                  THEN Selection(last.pre, HeadThenStride(n, keepHead, stride))
                  ELSE Selection(last.pre, EveryNth(n, newStride))
            /\ (last.pre = Scenario12 /\ last.final_count = 5 /\ stride = 3) =>
                  /\ keepHead = 2
                  /\ [i \in 1..Len(process_list) |-> score(process_list[i])]
                        = <<12, 11, 10, 7, 4, 1>>

\* prune(3, 5) was called on the twelve processes of scores 1..12
PruneExactWitness ==
    /\ PruneCall(last.stride = 3, last.final_count = 5)
    /\ last.pre = Scenario12
    /\ Len(process_list) = 6

\* C9 as stated: prune with stride = 1 on a population larger than
\* final_count >= 1 takes the first branch and fails with a division by zero.
StrideOneDivides ==
    (PruneCall(last.stride = 1, last.final_count >= 1)
        /\ Len(last.pre) > last.final_count) =>
        (last.branch = 1 /\ fault = "ZeroDivisionError")

\* C9 amended: prune with stride = 1 on a population larger than
\* final_count >= 1 never takes the first branch; it takes the second one,
\* raises nothing and keeps the sorted positions 0, newStride, ... with
\* newStride = n div final_count + 1.
StrideOneSecondBranch ==
    (PruneCall(last.stride = 1, last.final_count >= 1)
        /\ Len(last.pre) > last.final_count) =>
        /\ last.branch = 2
        /\ fault = "none"
        /\ process_list =
              Selection(last.pre,
                        EveryNth(Len(last.pre), Len(last.pre) \div last.final_count + 1))

\* prune with stride = 1 shortened a population larger than final_count
StrideOneWitness ==
    /\ PruneCall(last.stride = 1, last.final_count >= 1)
    /\ Len(last.pre) > last.final_count
    /\ Len(process_list) < Len(last.pre)

\* C10: prune with final_count <= 0 or stride <= 1 on a non-empty population
\* divides by zero nowhere and takes no slice whose step is zero or negative.
DegenerateGuarded ==
    (PruneCall(last.stride <= 1 \/ last.final_count <= 0, TRUE) /\ last.pre # << >>) =>
        /\ fault # "ZeroDivisionError"
        /\ fault # "ValueError"
        /\ (last.step = None \/ last.step[1] > 0)

---------------------------------------------------------------------------
(* Determinism and the scenario of the specification *)

\* the run of the process at position pos from line ln on, as a function
RECURSIVE RefProcess(_, _, _, _)
RefProcess(prog, pop, pos, ln) ==
    IF ln >= Len(prog)
    THEN [pop EXCEPT ![pos + 1].resume_ptr = 0]
    ELSE LET self     == pop[pos + 1]
             out      == CHOOSE o \in Call(prog[ln + 1], self.model, self.hint, 0) : TRUE
             k        == Len(out.hints)
             kept     == [model |-> out.model,
                          hint |-> IF k = 0 THEN None ELSE <<out.hints[k]>>,
                          resume_ptr |-> self.resume_ptr]
             children == [j \in 1..(k - 1) |->
                             [model |-> out.model, hint |-> <<out.hints[j]>>,
                              resume_ptr |-> ln + 1]]
         IN  RefProcess(prog, [pop EXCEPT ![pos + 1] = kept] \o children, pos, ln + 1)

\* the round from position pos on, as a function of the program and the population
RECURSIVE RefRound(_, _, _)
RefRound(prog, pop, pos) ==
    IF pos >= Len(pop) THEN pop
    ELSE RefRound(prog, RefProcess(prog, pop, pos, pop[pos + 1].resume_ptr), pos + 1)

\* C11: with deterministic instructions the population a round leaves (size,
\* and score, resume_ptr and pending hint at every position) is a function of
\* the program and of the population the round started from, so that two runs
\* that agree before a round agree after it.
Determinism ==
    (pc = "update" /\ code \in DeterministicPrograms) =>
        process_list = RefRound(code, round_start, 0)

\* a second round of a deterministic program has ended with four processes
DeterminismWitness ==
    /\ pc = "update"
    /\ code \in DeterministicPrograms
    /\ rounds = 2
    /\ Len(round_start) = 2
    /\ Len(process_list) = 4

\* C12: in the first round of the scenario program from model value 0 and no
\* hint, I0 is called with no hint and returns nothing (no fork, pending hint
\* none), I1 is called with no hint and leaves the original process with
\* pending hint 2 and one fork with resume_ptr 2 and hint 1; the round ends
\* with two processes.
Scenario ==
    (code = ScenarioProgram /\ rounds = 1) =>
        /\ (pc = "proc" /\ it_index = 0 /\ line \in {0, 1}) => process_list[1].hint = None
        /\ (last.op = "instr" /\ last.line = 0) =>
              /\ last.pos = 0
              /\ last.hints = << >>
              /\ process_list = <<[model |-> 0, hint |-> None, resume_ptr |-> 0]>>
        /\ (last.op = "instr" /\ last.line = 1) =>
              /\ last.pos = 0
              /\ last.hints = <<1, 2>>
              /\ process_list = <<[model |-> 0, hint |-> <<2>>, resume_ptr |-> 0],
                                  [model |-> 0, hint |-> <<1>>, resume_ptr |-> 2]>>
        /\ invoked \subseteq {<<0, 0>>, <<0, 1>>}
        /\ pc \in {"update", "idle"} =>
              process_list = <<[model |-> 0, hint |-> <<2>>, resume_ptr |-> 0],
                               [model |-> 0, hint |-> <<1>>, resume_ptr |-> 0]>>

\* the first round of the scenario program has ended
ScenarioWitness ==
    /\ code = ScenarioProgram
    /\ rounds = 1
    /\ pc = "update"
    /\ invoked = {<<0, 0>>, <<0, 1>>}

---------------------------------------------------------------------------
(* Properties of the steps of a round *)

\* C13: an instruction that returns no hints leaves the population size as it
\* was and the pending hint none; the process stays where it is and the next
\* step of the round is its next instruction, called with hint none, or its
\* return when that was the last line of the program.
EmptyResult ==
    [][/\ (last'.op = "instr" /\ last'.hints = << >>) =>
             /\ Len(process_list') = Len(process_list)
             /\ process_list'[last'.pos + 1].hint = None
             /\ pc' = "proc" /\ it_index' = last'.pos /\ line' = last'.line + 1
       /\ (last.op = "instr" /\ last.hints = << >>) =>
             /\ Len(process_list') >= Len(process_list)
             /\ \/ /\ last'.op = "instr"
                   /\ last'.pos = last.pos
                   /\ last'.line = last.line + 1
                   /\ process_list[last.pos + 1].hint = None
                \/ /\ last'.op = "return"
                   /\ last'.pos = last.pos
                   /\ last.line + 1 = Len(code)]_vars

\* in the second round step_one_incr consumed the hint 2 of the first process
\* of the main program and returned nothing, and more lines follow
EmptyResultWitness ==
    /\ code = MainProgram
    /\ rounds = 2
    /\ last.op = "instr"
    /\ last.pos = 0
    /\ last.line = 0
    /\ last.hints = << >>
    /\ process_list[1].model = 4
    /\ process_list[1].hint = None

\* C14: every resume_ptr is in 0..Len(code), every instruction call is at a
\* line in 0..Len(code)-1, and a process cloned with resume_ptr = Len(code)
\* has no instruction called on it in the round of its creation.
IndexRange ==
    /\ \A i \in 1..Len(process_list) : process_list[i].resume_ptr \in 0..Len(code)
    /\ \A c \in invoked : c[2] \in 0..(Len(code) - 1)
    /\ \A f \in forked : f.resume_ptr = Len(code) => \A c \in invoked : c[1] # f.pos

\* a process cloned by the last instruction of the program has just returned
IndexRangeWitness ==
    /\ last.op = "return"
    /\ Len(code) >= 1
    /\ \E f \in forked : f.pos = last.pos /\ f.resume_ptr = Len(code)

\* C15: during a call of Sys.execute, Process.execute is called on the
\* positions 0, 1, 2, ... in turn, each once, and on all of them, appended
\* ones included, when the call returns; a step of the round removes and moves
\* nothing (the population grows at its end only), and only prune makes the
\* population shorter.
ExecutedOnce ==
    [][/\ started' = [i \in 1..Len(started') |-> i - 1]
       /\ pc' \in {"sys", "proc", "update"} => Len(started') <= Len(process_list')
       /\ pc' = "update" => Len(started') = Len(process_list')
       /\ pc \in {"sys", "proc"} =>
             /\ Len(process_list') >= Len(process_list)
             /\ \A i \in 1..Len(process_list) :
                   i # it_index + 1 => process_list'[i] = process_list[i]
       /\ Len(process_list') < Len(process_list) => last'.op = "prune"]_vars

\* a round that started with two processes or more and appended clones has returned
ExecutedOnceWitness ==
    /\ pc = "update"
    /\ forked # {}
    /\ Len(process_list) - Cardinality(forked) >= 2
    /\ Len(started) = Len(process_list)

\* C16: an instruction call on the process at one position changes that
\* process only: the model, pending hint and resume_ptr at every other position
\* of the population, the program and the environment stay as they were, and a
\* clone registered by the call starts from a copy of the caller's model as the
\* call left it.
ModelOwnership ==
    [][last'.op = "instr" =>
          /\ \A i \in 1..Len(process_list) :
                i # last'.pos + 1 => process_list'[i] = process_list[i]
          /\ \A j \in (Len(process_list) + 1)..Len(process_list') :
                process_list'[j].model = process_list'[last'.pos + 1].model
          /\ code' = code
          /\ env' = env]_vars

\* an instruction has just changed the model of a process whose clone, made
\* earlier in the round, keeps the model it was copied with
ModelOwnershipWitness ==
    /\ last.op = "instr"
    /\ \E f \in forked :
          /\ f.parent = last.pos
          /\ f.resume_ptr <= last.line
          /\ process_list[f.pos + 1].model # process_list[last.pos + 1].model

----------------------------------------------------------------------------
(* Termination of Sys.execute *)

\* the steps Process.execute can still cause from line ln on: the call at ln,
\* the runs of the clones it registers (at most MaxHints - 1, each resuming at
\* ln + 1), the rest of its own loop, and its return
RECURSIVE RunWeight(_)
RunWeight(ln) ==
    IF ln >= Len(code) THEN 1
    ELSE 1 + (MaxHints - 1) * (1 + RunWeight(ln + 1)) + RunWeight(ln + 1)

\* the same for the processes at positions from..Len(process_list) - 1 the
\* iterator of Sys.execute has not reached yet
RECURSIVE PendingWeight(_)
PendingWeight(from) ==
    IF from >= Len(process_list) THEN 0
    ELSE 1 + RunWeight(process_list[from + 1].resume_ptr) + PendingWeight(from + 1)

\* a bound on the number of steps the current call of Sys.execute has left
Work ==
    CASE pc = "sys"  -> 1 + PendingWeight(it_index)
      [] pc = "proc" -> 1 + RunWeight(line) + PendingWeight(it_index + 1)
      [] OTHER       -> 0

\* the number of clone calls between a process and a process that was in the
\* population when the round started
RECURSIVE ForkDepth(_)
ForkDepth(pos) ==
    IF \E f \in forked : f.pos = pos
    THEN 1 + ForkDepth((CHOOSE f \in forked : f.pos = pos).parent)
    ELSE 0

\* C17: Sys.execute terminates: every step of the call lowers a natural number
\* bounded by the program length and the longest hint list, because a clone
\* resumes behind the line that created it (behind the line its parent started
\* from, and at most at the end of the program), so that a chain of clones is
\* never deeper than the program is long.
Termination ==
    [][/\ pc \in {"sys", "proc"} => Work' >= 0 /\ Work' < Work
       /\ \A f \in forked' :
             /\ f.resume_ptr >= 1
             /\ f.resume_ptr <= Len(code)
             /\ f.resume_ptr > StartLine(f.parent)'
             /\ ForkDepth(f.pos)' <= Len(code)]_vars

\* a call of Sys.execute has returned after a clone of a clone ran to the end
\* of a program of two lines or more
TerminationWitness ==
    /\ pc = "update"
    /\ Len(code) >= 2
    /\ \E f \in forked : ForkDepth(f.pos) = Len(code)

----------------------------------------------------------------------------
(* The pending hint across rounds *)

\* C18: the pending hint is carried across rounds. The return of
\* Process.execute changes resume_ptr only, and the iterator, the return of
\* Sys.execute, env.update() and the start of the next round change no process;
\* so line 0 is called with the hint the process holds, which is the one it held
\* when the round started. Only the initial process in the first round has no
\* hint by construction: in a second round the scenario program calls line 0
\* with 2 at position 0 (the last hint of the final call) and with 1 at position
\* 1 (the hint it was cloned with), and the program of src/process.py, whose
\* final instruction returns an empty list, calls it with no hint.
HintCarried ==
    [][/\ last'.op = "return" =>
             process_list' = [process_list EXCEPT ![it_index + 1].resume_ptr = 0]
       /\ last'.op \in {"next", "sys_return", "update", "execute"} =>
             process_list' = process_list
       /\ (last'.op = "instr" /\ last'.line = 0) =>
             LET self == process_list[last'.pos + 1] IN
             /\ \E o \in Call(code[1], self.model, self.hint, env) :
                   /\ last'.hints = o.hints
                   /\ process_list'[last'.pos + 1].model = o.model
             /\ code \in DeterministicPrograms =>
                   /\ last'.pos < Len(round_start)
                   /\ self.hint = round_start[last'.pos + 1].hint
             /\ (rounds = 1 /\ last'.pos = 0) => self.hint = None
             /\ (rounds = 2 /\ code = ScenarioProgram) =>
                   /\ self.hint = IF last'.pos = 0 THEN Some(2) ELSE Some(1)
                   /\ last'.hints = IF last'.pos = 0 THEN <<3>> ELSE <<2>>
             /\ (rounds = 2 /\ code = ProcessProgram) => self.hint = None]_vars

\* in the second round of the scenario program line 0 has been called on the
\* process that was cloned with hint 1 in the first round
HintCarriedWitness ==
    /\ rounds = 2
    /\ code = ScenarioProgram
    /\ last.op = "instr"
    /\ last.line = 0
    /\ last.pos = 1
    /\ last.hints = <<2>>

----------------------------------------------------------------------------
(* Order of execution within a round *)

\* the lines of the program from ln to its end
LinesFrom(ln) == {l \in 0..(Len(code) - 1) : l >= ln}

\* the lines that have been invoked on the process at position pos in this round
InvokedAt(pos) == {c[2] : c \in {d \in invoked : d[1] = pos}}

\* C19: a round runs the positions one after the other: when an instruction has
\* been invoked on a position, every position before it has run all its lines
\* to the end of the program, the position Process.execute is working on has
\* run its lines up to the current one, and no later position has run any; so
\* a clone, which is registered behind its parent and behind every process
\* registered before it, starts after all of them have finished, and clones
\* start in the order of their registration.
SequentialOrder ==
    pc \in {"sys", "proc", "update"} =>
       /\ \A pos \in 0..(Len(process_list) - 1) :
             /\ pos < it_index => InvokedAt(pos) = LinesFrom(StartLine(pos))
             /\ (pos = it_index /\ pc = "proc") =>
                   InvokedAt(pos) = {l \in LinesFrom(StartLine(pos)) : l < line}
             /\ (pos = it_index /\ pc # "proc") => InvokedAt(pos) = {}
             /\ pos > it_index => InvokedAt(pos) = {}
       /\ \A f \in forked :
             /\ f.parent < f.pos
             /\ f.parent <= it_index
             /\ f.pos < Len(process_list)
       /\ \A f, g \in forked :
             (f.pos < g.pos /\ g.pos \in Range(started)) => f.pos \in Range(started)

\* the second of two clones of one parent has started, after the first one ran
\* to the end of the program
SequentialOrderWitness ==
    /\ pc = "proc"
    /\ Len(code) >= 2
    /\ \E f, g \in forked :
          /\ f.parent = g.parent
          /\ f.pos < g.pos
          /\ g.pos = it_index
          /\ InvokedAt(f.pos) # {}
          /\ InvokedAt(g.pos) # {}

----------------------------------------------------------------------------
(* The frame of prune *)

\* the number of positions of the list x that hold p
Count(x, p) == Cardinality({i \in 1..Len(x) : x[i] = p})

\* C20: prune(stride, final_count) with stride >= 2 and final_count >= 1 only
\* selects: it raises nothing, every process of the population it leaves was in
\* the population before, with its model, pending hint and resume_ptr, and is
\* there no more often than before; the program and the environment are left
\* alone, and resume_ptr is still 0 everywhere.
PruneSelects ==
    [][(last'.op = "prune" /\ last'.stride >= 2 /\ last'.final_count >= 1) =>
          /\ fault' = "none"
          /\ \A i \in 1..Len(process_list') :
                /\ process_list'[i] \in Range(process_list)
                /\ Count(process_list', process_list'[i])
                      <= Count(process_list, process_list'[i])
                /\ process_list'[i].resume_ptr = 0
          /\ code' = code
          /\ env' = env]_vars

\* prune has sorted an unsorted population and dropped some of its processes
\* in the first branch
PruneSelectsWitness ==
    /\ PruneCall(last.stride >= 2, last.final_count >= 1)
    /\ last.branch = 1
    /\ Len(process_list) >= 2
    /\ Len(process_list) < Len(last.pre)
    /\ process_list # SubSeq(last.pre, 1, Len(process_list))

=============================================================================
